---- MODULE Spec2Model ----
(***************************************************************************)
(* Model of src/app.py (GSD-222: Redpath): process_file, the pipeline that *)
(* turns an uploaded ledger export into the five-column upload table, and  *)
(* its per-cell helpers determine_doc_type, format_balance and parse_date. *)
(*                                                                         *)
(* A cell is a sequence of one-character strings, or NaN for a cell the    *)
(* reader found empty.  A table is [ncols, rows]: the column count is kept *)
(* beside the rows because pandas keeps it when no row is left.            *)
(***************************************************************************)
EXTENDS Integers, Sequences, FiniteSets, TLC

VARIABLES
    pc,           \* position inside process_file
    name,         \* file.name
    df,           \* the working frame
    original_df,  \* the copy taken at line 26
    output,       \* the output frame (a sequence of records)
    error,        \* the message given to st.error, "none" when there is none
    result,       \* what process_file returns
    cpc,          \* position of the per-cell harness
    val,          \* the cell handed to a per-cell helper
    doc_type,     \* determine_doc_type(val)
    balance,      \* format_balance(val)
    to_datetime,  \* what pd.to_datetime answered inside parse_date
    date          \* parse_date(val)

vars == <<pc, name, df, original_df, output, error, result,
          cpc, val, doc_type, balance, to_datetime, date>>

pipeVars == <<pc, name, df, original_df, output, error, result>>
cellVars == <<cpc, val, doc_type, balance, to_datetime, date>>

----------------------------------------------------------------------------
(* Bounds of the model *)

\* data rows after the header region
MaxData == 4
\* longest balance cell enumerated character by character
MaxLen == 4

(* Program constants *)

\* df.iloc[13:]
HeaderRows == 13
\* df.shape[1] < 14
RequiredCols == 14

----------------------------------------------------------------------------
(* Strings *)

NaN == <<"NaN">>

isna(v) == v = NaN
notna(v) == v # NaN

\* str(v): a missing cell is the float nan, whose str is "nan"
str(v) == IF isna(v) THEN <<"n", "a", "n">> ELSE v

IsSpace(c) == c = " "

RECURSIVE lstrip(_)
lstrip(s) ==
    IF s # <<>> /\ IsSpace(Head(s)) THEN lstrip(Tail(s)) ELSE s

RECURSIVE rstrip(_)
rstrip(s) ==
    IF s # <<>> /\ IsSpace(s[Len(s)]) THEN rstrip(SubSeq(s, 1, Len(s) - 1)) ELSE s

strip(s) == rstrip(lstrip(s))

\* s.replace(ch, "")
replace(s, ch) == SelectSeq(s, LAMBDA c : c # ch)

UpperChars == <<"A", "B", "C", "D", "E", "F", "G", "H", "I", "J", "K", "L", "M",
                "N", "O", "P", "Q", "R", "S", "T", "U", "V", "W", "X", "Y", "Z">>
LowerChars == <<"a", "b", "c", "d", "e", "f", "g", "h", "i", "j", "k", "l", "m",
                "n", "o", "p", "q", "r", "s", "t", "u", "v", "w", "x", "y", "z">>

lowerChar(c) ==
    IF \E i \in 1..Len(UpperChars) : UpperChars[i] = c
    THEN LowerChars[CHOOSE i \in 1..Len(UpperChars) : UpperChars[i] = c]
    ELSE c

lower(s) == [i \in 1..Len(s) |-> lowerChar(s[i])]

endswith(s, suffix) ==
    /\ Len(s) >= Len(suffix)
    /\ SubSeq(s, Len(s) - Len(suffix) + 1, Len(s)) = suffix

DigitChars == <<"0", "1", "2", "3", "4", "5", "6", "7", "8", "9">>

IsDigit(c) == \E i \in 1..10 : DigitChars[i] = c

DigitVal(c) == (CHOOSE i \in 1..10 : DigitChars[i] = c) - 1

AllDigits(s) == \A i \in 1..Len(s) : IsDigit(s[i])

RECURSIVE DigitsToNat(_)
DigitsToNat(s) ==
    IF s = <<>> THEN 0
    ELSE 10 * DigitsToNat(SubSeq(s, 1, Len(s) - 1)) + DigitVal(s[Len(s)])

RECURSIVE NatToDigits(_)
NatToDigits(n) ==
    IF n < 10 THEN <<DigitChars[n + 1]>>
    ELSE NatToDigits(n \div 10) \o <<DigitChars[(n % 10) + 1]>>

\* zero-padded to at least w digits
RECURSIVE Pad(_, _)
Pad(s, w) == IF Len(s) >= w THEN s ELSE Pad(<<"0">> \o s, w)

----------------------------------------------------------------------------
(* float(), determine_doc_type and format_balance *)

ParseError == [ok |-> FALSE, kind |-> "err", neg |-> FALSE, cents |-> 0, nonzero |-> FALSE]

\* index of the first "." of s, 0 when there is none
FirstDot(s) ==
    IF \E i \in 1..Len(s) : s[i] = "."
    THEN CHOOSE i \in 1..Len(s) : s[i] = "." /\ \A j \in 1..(i - 1) : s[j] # "."
    ELSE 0

\* the value of the digits ip "." fp, in hundredths, rounded to nearest
Cents(ip, fp) ==
    LET f == SubSeq(fp \o <<"0", "0", "0">>, 1, 3)
    IN  DigitsToNat(ip) * 100 + DigitVal(f[1]) * 10 + DigitVal(f[2])
          + (IF DigitVal(f[3]) >= 5 THEN 1 ELSE 0)

\* Python's float(s) on a string of blanks, signs, digits, "." and letters:
\* surrounding whitespace is dropped, one sign is allowed, then either
\* nan / inf / infinity or digits with at most one "." and at least one digit.
py_float(s) ==
    LET t    == strip(s)
        sgn  == t # <<>> /\ Head(t) \in {"+", "-"}
        neg  == t # <<>> /\ Head(t) = "-"
        u    == IF sgn THEN Tail(t) ELSE t
        w    == lower(u)
        dot  == FirstDot(u)
        ip   == IF dot = 0 THEN u ELSE SubSeq(u, 1, dot - 1)
        fp   == IF dot = 0 THEN <<>> ELSE SubSeq(u, dot + 1, Len(u))
    IN  IF w = <<"n", "a", "n">>
        THEN [ok |-> TRUE, kind |-> "nan", neg |-> neg, cents |-> 0, nonzero |-> FALSE]
        ELSE IF w = <<"i", "n", "f">> \/ w = <<"i", "n", "f", "i", "n", "i", "t", "y">>
        THEN [ok |-> TRUE, kind |-> "inf", neg |-> neg, cents |-> 0, nonzero |-> TRUE]
        ELSE IF AllDigits(ip) /\ AllDigits(fp) /\ Len(ip) + Len(fp) > 0
        THEN [ok |-> TRUE, kind |-> "num", neg |-> neg, cents |-> Cents(ip, fp),
              nonzero |-> \E i \in 1..Len(u) : IsDigit(u[i]) /\ u[i] # "0"]
        ELSE ParseError

\* float(str(v).replace(",", "").replace("$", ""))
balance_val(v) == py_float(replace(replace(str(v), ","), "$"))

\* x >= 0 on a float: false for nan, for -inf and for numbers below zero
GeZero(x) ==
    CASE x.kind = "nan" -> FALSE
      [] x.kind = "inf" -> ~x.neg
      [] OTHER          -> ~(x.neg /\ x.nonzero)

\* f"{x:.2f}"
Format2f(x) ==
    CASE x.kind = "nan" -> <<"n", "a", "n">>
      [] x.kind = "inf" -> (IF x.neg THEN <<"-">> ELSE <<>>) \o <<"i", "n", "f">>
      [] OTHER          -> (IF x.neg THEN <<"-">> ELSE <<>>)
                             \o NatToDigits(x.cents \div 100) \o <<".">>
                             \o Pad(NatToDigits(x.cents % 100), 2)

determine_doc_type(v) ==
    LET x == balance_val(v)
    IN  IF x.ok THEN (IF GeZero(x) THEN "INV" ELSE "CRD") ELSE "INV"

format_balance(v) ==
    LET x == balance_val(v)
    IN  IF x.ok THEN Format2f(x) ELSE <<"0", ".", "0", "0">>

----------------------------------------------------------------------------
(* datetime.strptime, strftime and parse_date *)

\* the formats of lines 108-116, in their order; a directive is a
\* two-character string, anything else is a literal character
Formats == <<
    <<"%d", "/", "%m", "/", "%Y">>,
    <<"%Y", "-", "%m", "-", "%d">>,
    <<"%d", "-", "%m", "-", "%Y">>,
    <<"%m", "/", "%d", "/", "%Y">>,
    <<"%Y", "/", "%m", "/", "%d">>,
    <<"%d", "-", "%b", "-", "%Y">>,
    <<"%d", " ", "%b", " ", "%Y">> >>

MonthAbbr == <<
    <<"j", "a", "n">>, <<"f", "e", "b">>, <<"m", "a", "r">>, <<"a", "p", "r">>,
    <<"m", "a", "y">>, <<"j", "u", "n">>, <<"j", "u", "l">>, <<"a", "u", "g">>,
    <<"s", "e", "p">>, <<"o", "c", "t">>, <<"n", "o", "v">>, <<"d", "e", "c">> >>

NoDate == [d |-> 0, m |-> 0, y |-> 0]

\* the texts a directive accepts, as strptime's regular expressions do:
\* %d (3[0-1]|[1-2]\d|0[1-9]|[1-9]| [1-9])   %m (1[0-2]|0[1-9]|[1-9])
\* %Y \d\d\d\d                                %b a month abbreviation, any case
Accepts(dir, p) ==
    CASE dir = "%d" ->
           \/ Len(p) = 1 /\ IsDigit(p[1]) /\ p[1] # "0"
           \/ Len(p) = 2 /\ p[1] = "3" /\ p[2] \in {"0", "1"}
           \/ Len(p) = 2 /\ p[1] \in {"1", "2"} /\ IsDigit(p[2])
           \/ Len(p) = 2 /\ p[1] \in {"0", " "} /\ IsDigit(p[2]) /\ p[2] # "0"
      [] dir = "%m" ->
           \/ Len(p) = 1 /\ IsDigit(p[1]) /\ p[1] # "0"
           \/ Len(p) = 2 /\ p[1] = "1" /\ p[2] \in {"0", "1", "2"}
           \/ Len(p) = 2 /\ p[1] = "0" /\ IsDigit(p[2]) /\ p[2] # "0"
      [] dir = "%Y" -> Len(p) = 4 /\ AllDigits(p)
      [] dir = "%b" -> Len(p) = 3 /\ \E i \in 1..12 : MonthAbbr[i] = lower(p)
      [] OTHER -> FALSE

\* the fields read so far, with the text p taken for directive dir
Taken(acc, dir, p) ==
    CASE dir = "%d" -> [acc EXCEPT !.d = DigitsToNat(lstrip(p))]
      [] dir = "%m" -> [acc EXCEPT !.m = DigitsToNat(p)]
      [] dir = "%Y" -> [acc EXCEPT !.y = DigitsToNat(p)]
      [] dir = "%b" -> [acc EXCEPT !.m = CHOOSE i \in 1..12 : MonthAbbr[i] = lower(p)]

\* every way format fmt matches the whole of s (a blank of the format
\* matches one or more blanks of the text)
RECURSIVE Matches(_, _, _)
Matches(fmt, s, acc) ==
    IF fmt = <<>> THEN (IF s = <<>> THEN {acc} ELSE {})
    ELSE LET it == Head(fmt)
         IN  IF Len(it) = 2
             THEN UNION {Matches(Tail(fmt), SubSeq(s, k + 1, Len(s)), Taken(acc, it, SubSeq(s, 1, k))) :
                         k \in {j \in 1..4 : j <= Len(s) /\ Accepts(it, SubSeq(s, 1, j))}}
             ELSE IF it = " "
             THEN UNION {Matches(Tail(fmt), SubSeq(s, k + 1, Len(s)), acc) :
                         k \in {j \in 1..Len(s) : \A i \in 1..j : IsSpace(s[i])}}
             ELSE IF s # <<>> /\ Head(s) = it
             THEN Matches(Tail(fmt), Tail(s), acc)
             ELSE {}

IsLeap(y) == (y % 4 = 0 /\ y % 100 # 0) \/ y % 400 = 0

DaysInMonth(m, y) ==
    CASE m \in {4, 6, 9, 11} -> 30
      [] m = 2 -> (IF IsLeap(y) THEN 29 ELSE 28)
      [] OTHER -> 31

\* datetime(y, m, d) exists: MINYEAR is 1
ValidDate(r) ==
    /\ r.y >= 1
    /\ r.m \in 1..12
    /\ r.d \in 1..DaysInMonth(r.m, r.y)

\* datetime.strptime(s, fmt): the date, or NoDate when it raises ValueError
strptime(s, fmt) ==
    LET M == {r \in Matches(fmt, s, NoDate) : ValidDate(r)}
    IN  IF M = {} THEN NoDate ELSE CHOOSE r \in M : TRUE

\* strftime("%d/%m/%Y"); ywidth is the width the C library pads %Y to:
\* 4 where it zero-pads, 1 where it does not (glibc)
strftime(r, ywidth) ==
    Pad(NatToDigits(r.d), 2) \o <<"/">> \o Pad(NatToDigits(r.m), 2) \o <<"/">>
      \o Pad(NatToDigits(r.y), ywidth)

YearWidths == {1, 4}

\* what pd.to_datetime(val, dayfirst=True, errors="coerce") can give for a
\* text none of the formats matched: NaT, an exception, or a timestamp
NaT == [kind |-> "NaT", d |-> 0, m |-> 0, y |-> 0]
Raised == [kind |-> "raise", d |-> 0, m |-> 0, y |-> 0]
Timestamps == {[kind |-> "date", d |-> 15, m |-> 1, y |-> 2024]}
Fallbacks == {NaT, Raised} \cup Timestamps

\* index of the first format that parses s, 0 when none does
FirstFormat(s) ==
    IF \E i \in 1..Len(Formats) : strptime(s, Formats[i]) # NoDate
    THEN CHOOSE i \in 1..Len(Formats) :
           /\ strptime(s, Formats[i]) # NoDate
           /\ \A j \in 1..(i - 1) : strptime(s, Formats[j]) = NoDate
    ELSE 0

\* mutant of parse_date: the empty string when nothing parses
parse_date_or_empty(v, parsed_date, ywidth) ==
    IF isna(v) \/ strip(str(v)) = <<>> THEN <<>>
    ELSE LET i == FirstFormat(str(v))
         IN  IF i # 0 THEN strftime(strptime(str(v), Formats[i]), ywidth)
             ELSE IF parsed_date.kind = "date" THEN strftime(parsed_date, ywidth)
             ELSE <<>>

\* parse_date(val), given the permissive parser's answer and the platform
parse_date(v, parsed_date, ywidth) ==
    IF isna(v) \/ strip(str(v)) = <<>> THEN <<>>
    ELSE LET i == FirstFormat(str(v))
         IN  IF i # 0 THEN strftime(strptime(str(v), Formats[i]), ywidth)
             ELSE IF parsed_date.kind = "date" THEN strftime(parsed_date, ywidth)
             ELSE str(v)

----------------------------------------------------------------------------
(* The uploads enumerated *)

FileNames == {
    <<"a", ".", "c", "s", "v">>,
    <<"a", ".", "x", "l", "s">>,
    <<"a", ".", "X", "L", "S", "X">>,
    <<"a", ".", "t", "x", "t">>,
    <<"c", "s", "v", ".", "b", "a", "k">>,
    <<"x", "l", "s">> }

\* columns C, D and N of a data row: all missing; a blank number with a
\* date no format reads; a numbered document
NoDocument == <<NaN, NaN, NaN>>
BlankNumber == <<<<" ">>, <<"x">>, <<"1", "0", "0">>>>
Document == <<<<"N", "1">>, <<"2", "0", "2", "4", "-", "0", "1", "-", "1", "5">>, <<"-", "2", "0">>>>

\* the data rows: column A, then columns C, D and N
DataChoices == {
    <<NaN, NoDocument>>,
    <<NaN, Document>>,
    <<<<" ">>, Document>>,
    <<<<"D", "1">>, BlankNumber>>,
    <<<<"D", "1">>, Document>>,
    <<<<" ", "D", "2">>, Document>> }

\* a cell of the header region, and of the columns the pipeline discards
Filler == <<"H">>

ColChoices == {1, RequiredCols - 1, RequiredCols, RequiredCols + 1}

HeaderRow(n) == [j \in 1..n |-> Filler]

DataRow(n, a, cdn) ==
    [j \in 1..n |-> CASE j = 1  -> a
                      [] j = 3  -> cdn[1]
                      [] j = 4  -> cdn[2]
                      [] j = 14 -> cdn[3]
                      [] OTHER  -> Filler]

\* the data rows of the sheets and of the frames of another width
FewChoices == {<<NaN, <<<<"N", "1">>, NaN, <<"1">>>>>>,
               <<<<"D", "1">>, <<<<"N", "2">>, <<"x">>, <<"-", "1">>>>>>}

\* h rows of the header region alone
HeaderFrame(n, h) == [ncols |-> n, rows |-> [i \in 1..h |-> HeaderRow(n)]]

\* the whole header region followed by the data rows c[1], c[2], ...
DataFrame(n, c) ==
    [ncols |-> n,
     rows  |-> [i \in 1..(HeaderRows + Len(c)) |->
                  IF i <= HeaderRows THEN HeaderRow(n)
                  ELSE DataRow(n, c[i - HeaderRows][1], c[i - HeaderRows][2])]]

\* the empty frame read_excel returns for an empty sheet
EmptySheet == [ncols |-> 0, rows |-> <<>>]

\* t is a frame of n columns with 1 .. HeaderRows + MaxData rows, its data
\* rows drawn from choices
IsFrameOf(t, n, choices) ==
    \/ \E h \in 1..HeaderRows : t = HeaderFrame(n, h)
    \/ \E k \in 1..MaxData : \E c \in [1..k -> choices] : t = DataFrame(n, c)

----------------------------------------------------------------------------
(* process_file *)

NoFrame == [ncols |-> 0, rows |-> <<>>]
Pending == [kind |-> "pending", rows |-> <<>>]
None == [kind |-> "none", rows |-> <<>>]
Frame(rows) == [kind |-> "table", rows |-> rows]

\* mutant of empty: the emptiness test left out
never_empty(t) == FALSE

\* df.empty: no rows or no columns
empty(t) == Len(t.rows) = 0 \/ t.ncols = 0

IsCsv(n) == endswith(lower(n), <<".", "c", "s", "v">>)

IsExcel(n) ==
    \/ endswith(lower(n), <<".", "x", "l", "s">>)
    \/ endswith(lower(n), <<".", "x", "l", "s", "x">>)

\* df.iloc[13:].reset_index(drop=True)
row_trim(t) == [t EXCEPT !.rows = SubSeq(t.rows, HeaderRows + 1, Len(t.rows))]

\* mutant of too_narrow: the width tested only while rows remain
too_narrow_with_rows(t) == Len(t.rows) > 0 /\ t.ncols < RequiredCols

\* mutant of too_narrow: 14 columns refused as well
too_narrow_off_by_one(t) == t.ncols <= RequiredCols

\* df.shape[1] < 14
too_narrow(t) == t.ncols < RequiredCols

\* df.iloc[:, [0, 2, 3, 13]]
column_select(t) ==
    [ncols |-> 4,
     rows  |-> [i \in 1..Len(t.rows) |->
                  <<t.rows[i][1], t.rows[i][3], t.rows[i][4], t.rows[i][14]>>]]

\* mutant of column_a_shift: every column moved down with column A
shift_all_columns(t) ==
    [t EXCEPT !.rows =
       [i \in 1..Len(t.rows) |->
          IF i = 1 THEN <<<<>>, <<>>, <<>>, <<>>>> ELSE t.rows[i - 1]]]

\* mutant of column_a_shift: column A left where it was
column_a_unshifted(t) == t

\* df.iloc[1:, 0] = df.iloc[:-1, 0].values ; df.iloc[0, 0] = ""
column_a_shift(t) ==
    IF empty(t) THEN t
    ELSE [t EXCEPT !.rows =
            [i \in 1..Len(t.rows) |->
               [t.rows[i] EXCEPT ![1] = IF i = 1 THEN <<>> ELSE t.rows[i - 1][1]]]]

\* lines 67-70: the four columns copied under their names; Document Type
\* is still missing
build_output(t) ==
    [i \in 1..Len(t.rows) |->
       [DebtorReference |-> t.rows[i][1],
        DocumentNumber  |-> t.rows[i][2],
        DocumentDate    |-> t.rows[i][3],
        DocumentBalance |-> t.rows[i][4],
        DocumentType    |-> "NaN"]]

\* mutant of forward_fill: a row without a Document Number does not set
\* the running reference
RECURSIVE fill_from_numbered_rows(_, _)
fill_from_numbered_rows(rows, debtor_ref) ==
    IF rows = <<>> THEN <<>>
    ELSE LET r == Head(rows)
             set == /\ notna(r.DebtorReference) /\ strip(str(r.DebtorReference)) # <<>>
                    /\ notna(r.DocumentNumber) /\ strip(str(r.DocumentNumber)) # <<>>
         IN  IF notna(r.DebtorReference) /\ strip(str(r.DebtorReference)) # <<>>
             THEN <<r>> \o fill_from_numbered_rows(Tail(rows), IF set THEN r.DebtorReference ELSE debtor_ref)
             ELSE <<[r EXCEPT !.DebtorReference = debtor_ref]>>
                    \o fill_from_numbered_rows(Tail(rows), debtor_ref)

\* lines 73-78, with the running debtor_ref
RECURSIVE forward_fill(_, _)
forward_fill(rows, debtor_ref) ==
    IF rows = <<>> THEN <<>>
    ELSE LET r == Head(rows)
         IN  IF notna(r.DebtorReference) /\ strip(str(r.DebtorReference)) # <<>>
             THEN <<r>> \o forward_fill(Tail(rows), r.DebtorReference)
             ELSE <<[r EXCEPT !.DebtorReference = debtor_ref]>>
                    \o forward_fill(Tail(rows), debtor_ref)

\* mutant of keep: the Document Number not looked at
keep_reference_only(r) ==
    /\ notna(r.DebtorReference)
    /\ strip(str(r.DebtorReference)) # <<>>

\* the mask of lines 135-140
keep(r) ==
    /\ notna(r.DebtorReference)
    /\ strip(str(r.DebtorReference)) # <<>>
    /\ notna(r.DocumentNumber)
    /\ strip(str(r.DocumentNumber)) # <<>>

filter_rows(rows) == SelectSeq(rows, keep)

Init ==
    /\ pc = "start"
    /\ name \in FileNames
    /\ df = NoFrame
    /\ original_df = NoFrame
    /\ output = <<>>
    /\ error = "none"
    /\ result = Pending
    /\ cpc = "off"
    /\ val = NaN
    /\ doc_type = "NaN"
    /\ balance = <<>>
    /\ to_datetime = NaT
    /\ date = <<>>

\* line 14 (read_csv raises on a file with nothing to parse)
ReadCsv ==
    /\ pc = "start"
    /\ IsCsv(name)
    /\ \E n \in ColChoices :
         IsFrameOf(df', n, IF n = RequiredCols THEN DataChoices ELSE FewChoices)
    /\ pc' = "read"
    /\ UNCHANGED <<name, original_df, output, error, result>>
    /\ UNCHANGED cellVars

\* line 16
ReadExcel ==
    /\ pc = "start"
    /\ ~IsCsv(name)
    /\ IsExcel(name)
    /\ \/ df' = EmptySheet
       \/ \E n \in ColChoices : IsFrameOf(df', n, FewChoices)
    /\ pc' = "read"
    /\ UNCHANGED <<name, original_df, output, error, result>>
    /\ UNCHANGED cellVars

\* lines 17-19
UnsupportedFormat ==
    /\ pc = "start"
    /\ ~IsCsv(name)
    /\ ~IsExcel(name)
    /\ error' = "UnsupportedFormat"
    /\ result' = None
    /\ pc' = "done"
    /\ UNCHANGED <<name, df, original_df, output>>
    /\ UNCHANGED cellVars

\* lines 21-23
EmptyInput ==
    /\ pc = "read"
    /\ empty(df)
    /\ error' = "EmptyInput"
    /\ result' = None
    /\ pc' = "done"
    /\ UNCHANGED <<name, df, original_df, output>>
    /\ UNCHANGED cellVars

\* lines 26-31
RowTrim ==
    /\ pc = "read"
    /\ ~empty(df)
    /\ original_df' = df
    /\ df' = row_trim(df)
    /\ pc' = "columns"
    /\ UNCHANGED <<name, output, error, result>>
    /\ UNCHANGED cellVars

\* lines 35-37
InsufficientColumns ==
    /\ pc = "columns"
    /\ too_narrow(df)
    /\ error' = "InsufficientColumns"
    /\ result' = None
    /\ pc' = "done"
    /\ UNCHANGED <<name, df, original_df, output>>
    /\ UNCHANGED cellVars

\* line 40
ColumnSelect ==
    /\ pc = "columns"
    /\ ~too_narrow(df)
    /\ df' = column_select(df)
    /\ pc' = "shift"
    /\ UNCHANGED <<name, original_df, output, error, result>>
    /\ UNCHANGED cellVars

\* lines 43-45
ColumnAShift ==
    /\ pc = "shift"
    /\ df' = column_a_shift(df)
    /\ pc' = "build"
    /\ UNCHANGED <<name, original_df, output, error, result>>
    /\ UNCHANGED cellVars

\* lines 55-70
BuildOutput ==
    /\ pc = "build"
    /\ output' = IF empty(df) THEN <<>> ELSE build_output(df)
    /\ pc' = IF empty(df) THEN "return" ELSE "fill"
    /\ UNCHANGED <<name, df, original_df, error, result>>
    /\ UNCHANGED cellVars

\* lines 73-78
ForwardFill ==
    /\ pc = "fill"
    /\ output' = forward_fill(output, <<>>)
    /\ pc' = "type"
    /\ UNCHANGED <<name, df, original_df, error, result>>
    /\ UNCHANGED cellVars

\* line 88
DocumentType ==
    /\ pc = "type"
    /\ output' = [i \in 1..Len(output) |->
                    [output[i] EXCEPT !.DocumentType =
                       determine_doc_type(output[i].DocumentBalance)]]
    /\ pc' = "balance"
    /\ UNCHANGED <<name, df, original_df, error, result>>
    /\ UNCHANGED cellVars

\* line 100
DocumentBalance ==
    /\ pc = "balance"
    /\ output' = [i \in 1..Len(output) |->
                    [output[i] EXCEPT !.DocumentBalance =
                       format_balance(output[i].DocumentBalance)]]
    /\ pc' = "date"
    /\ UNCHANGED <<name, df, original_df, error, result>>
    /\ UNCHANGED cellVars

\* line 132; the permissive parser and the C library are the same for every row
DocumentDate ==
    /\ pc = "date"
    /\ \E parsed_date \in Fallbacks, ywidth \in YearWidths :
         output' = [i \in 1..Len(output) |->
                      [output[i] EXCEPT !.DocumentDate =
                         parse_date(output[i].DocumentDate, parsed_date, ywidth)]]
    /\ pc' = "filter"
    /\ UNCHANGED <<name, df, original_df, error, result>>
    /\ UNCHANGED cellVars

\* lines 135-140
Filter ==
    /\ pc = "filter"
    /\ output' = filter_rows(output)
    /\ pc' = "return"
    /\ UNCHANGED <<name, df, original_df, error, result>>
    /\ UNCHANGED cellVars

\* line 142
Return ==
    /\ pc = "return"
    /\ result' = Frame(output)
    /\ pc' = "done"
    /\ UNCHANGED <<name, df, original_df, output, error>>
    /\ UNCHANGED cellVars

Next ==
    \/ ReadCsv
    \/ ReadExcel
    \/ UnsupportedFormat
    \/ EmptyInput
    \/ RowTrim
    \/ InsufficientColumns
    \/ ColumnSelect
    \/ ColumnAShift
    \/ BuildOutput
    \/ ForwardFill
    \/ DocumentType
    \/ DocumentBalance
    \/ DocumentDate
    \/ Filter
    \/ Return

Spec == Init /\ [][Next]_vars

----------------------------------------------------------------------------
(* The per-cell helpers on their own: each is applied to one cell *)

BalanceChars == {"0", "1", ".", ",", "$", "-", " ", "a"}

\* every text of at most MaxLen characters, the missing cell, and the
\* balances the documentation names
BalanceCells ==
    UNION {[1..k -> BalanceChars] : k \in 0..MaxLen}
    \cup {NaN,
          <<"1", ",", "2", "3", "4", ".", "5">>,
          <<"-", "5", "0">>,
          <<"a", "b", "c">>,
          <<"n", "a", "n">>,
          <<"-", "i", "n", "f">>,
          <<"$", "1", ",", "0", "0", "0", ".", "0", "7">>}

DateFields == {<<"1">>, <<"0", "2">>, <<"1", "3">>, <<"2", "9">>, <<"3", "1">>,
               <<"F", "e", "b">>, <<"j", "a", "n">>,
               <<"2", "0", "2", "3">>, <<"2", "0", "2", "4">>, <<"0", "9", "9", "9">>}

DateSeps == {"/", "-", " "}

\* three fields joined by one separator, the blank cells, and texts that
\* no format reads
DateCells ==
    {f \o <<c>> \o g \o <<c>> \o h : f \in DateFields, g \in DateFields, h \in DateFields, c \in DateSeps}
    \cup {NaN, <<>>, <<" ", " ">>,
          <<"a", "b", "c">>,
          <<"2", "0", "2", "4", "0", "1", "1", "5">>,
          <<" ", "1", "/", "0", "2", "/", "2", "0", "2", "4">>,
          <<"1", "/", "0", "2", "/", "2", "0", "2", "4", " ">>,
          <<"1", " ", " ", "F", "e", "b", " ", "2", "0", "2", "4">>,
          <<"1", "5", "/", "0", "1", "/", "2", "4">>}

IdlePipe ==
    /\ pc = "off"
    /\ name = <<>>
    /\ df = NoFrame
    /\ original_df = NoFrame
    /\ output = <<>>
    /\ error = "none"
    /\ result = Pending

InitBalance ==
    /\ IdlePipe
    /\ cpc = "cell"
    /\ val \in BalanceCells
    /\ doc_type = "NaN"
    /\ balance = <<>>
    /\ to_datetime = NaT
    /\ date = <<>>

\* line 88 on one cell
CellDocType ==
    /\ cpc = "cell"
    /\ doc_type' = determine_doc_type(val)
    /\ cpc' = "typed"
    /\ UNCHANGED <<val, balance, to_datetime, date>>
    /\ UNCHANGED pipeVars

\* line 100 on one cell
CellBalance ==
    /\ cpc = "typed"
    /\ balance' = format_balance(val)
    /\ cpc' = "formatted"
    /\ UNCHANGED <<val, doc_type, to_datetime, date>>
    /\ UNCHANGED pipeVars

NextBalance ==
    \/ CellDocType
    \/ CellBalance

SpecBalance == InitBalance /\ [][NextBalance]_vars

InitDate ==
    /\ IdlePipe
    /\ cpc = "cell"
    /\ val \in DateCells
    /\ doc_type = "NaN"
    /\ balance = <<>>
    /\ to_datetime = NaT
    /\ date = <<>>

\* line 132 on one cell
CellDate ==
    /\ cpc = "cell"
    /\ \E p \in Fallbacks, ywidth \in YearWidths :
         /\ to_datetime' = p
         /\ date' = parse_date(val, p, ywidth)
    /\ cpc' = "dated"
    /\ UNCHANGED <<val, doc_type, balance>>
    /\ UNCHANGED pipeVars

NextDate == CellDate

SpecDate == InitDate /\ [][NextDate]_vars

----------------------------------------------------------------------------
(* What the claims speak of *)

\* blank after whitespace trimming: missing, or nothing but blanks
Blank(v) == v = NaN \/ \A i \in 1..Len(v) : v[i] = " "

Max(S) == CHOOSE x \in S : \A y \in S : y <= x

\* the j-th smallest member of K
Nth(K, j) == CHOOSE i \in K : Cardinality({x \in K : x <= i}) = j

\* names with one of the extensions .csv, .xls, .xlsx in any case
SupportedNames == {<<"a", ".", "c", "s", "v">>,
                   <<"a", ".", "x", "l", "s">>,
                   <<"a", ".", "X", "L", "S", "X">>}

Returned == pc = "done" /\ result.kind = "table"

\* the reference row i of the shifted frame should carry after the fill: the
\* shifted column-A value of the nearest row at or above i where it is not blank
FilledRef(i) ==
    LET J == {j \in 1..i : ~Blank(df.rows[j][1])}
    IN  IF J = {} THEN <<>> ELSE df.rows[Max(J)][1]

\* the rows of the shifted frame whose two keys are not blank
Kept == {i \in 1..Len(df.rows) : ~Blank(FilledRef(i)) /\ ~Blank(df.rows[i][2])}

\* C1: the returned records are exactly the derived rows whose Debtor
\* Reference and Document Number are both non-blank after trimming, in the
\* order of the input rows; no returned record has a blank key.
C1_ReturnedAreTheKeyedRows ==
    Returned =>
      /\ Len(result.rows) = Cardinality(Kept)
      /\ \A j \in 1..Len(result.rows) :
           LET i == Nth(Kept, j)
               r == result.rows[j]
           IN  /\ r.DebtorReference = FilledRef(i)
               /\ r.DocumentNumber = df.rows[i][2]
               /\ r.DocumentBalance = format_balance(df.rows[i][4])
               /\ r.DocumentType = determine_doc_type(df.rows[i][4])
               /\ \E p \in Fallbacks, w \in YearWidths :
                    r.DocumentDate = parse_date(df.rows[i][3], p, w)
               /\ ~Blank(r.DebtorReference)
               /\ ~Blank(r.DocumentNumber)

\* a run that returned a record, dropped a row with a reference and a blank
\* Document Number, and dropped a row with a number and no reference
C1_Witness ==
    /\ Returned
    /\ Len(result.rows) >= 1
    /\ \E i \in 1..Len(df.rows) : ~Blank(FilledRef(i)) /\ Blank(df.rows[i][2])
    /\ \E i \in 1..Len(df.rows) : Blank(FilledRef(i)) /\ ~Blank(df.rows[i][2])

PreFilter == pc \in {"type", "balance", "date", "filter"}

\* C2: before the filter every row, kept later or not, carries the shifted
\* column-A value of the nearest row at or above it whose shifted cell is
\* not blank, or the empty string when there is none.
C2_FillRunsOverAllRows ==
    PreFilter =>
      /\ Len(output) = Len(df.rows)
      /\ \A i \in 1..Len(output) : output[i].DebtorReference = FilledRef(i)

\* two references in a row, the second on a row the filter will drop, and
\* the row after it filled from that second one
C2_Witness ==
    /\ pc = "type"
    /\ \E i \in 3..(Len(output) - 1) :
         /\ ~Blank(df.rows[i - 1][1])
         /\ ~Blank(df.rows[i][1])
         /\ df.rows[i][1] # df.rows[i - 1][1]
         /\ Blank(df.rows[i][2])
         /\ Blank(df.rows[i + 1][1])
         /\ ~Blank(df.rows[i + 1][2])
         /\ output[i + 1].DebtorReference = df.rows[i][1]

\* row i of the trimmed frame, in the frame as it was read
Raw(i) == original_df.rows[HeaderRows + i]

\* C3: after the shift and before the fill, row 0 of the first column is
\* blank, every later row holds the value the row above had, and the other
\* three columns hold what they held.
C3_OnlyColumnAShifts ==
    pc = "build" =>
      /\ Len(df.rows) = (IF Len(original_df.rows) > HeaderRows
                         THEN Len(original_df.rows) - HeaderRows ELSE 0)
      /\ \A i \in 1..Len(df.rows) :
           /\ i = 1 => df.rows[i][1] = <<>>
           /\ i > 1 => df.rows[i][1] = Raw(i - 1)[1]
           /\ df.rows[i][2] = Raw(i)[3]
           /\ df.rows[i][3] = Raw(i)[4]
           /\ df.rows[i][4] = Raw(i)[14]

\* a frame whose second row took a reference from the first while its own
\* column-A cell and its number differ from the first row's
C3_Witness ==
    /\ pc = "build"
    /\ Len(df.rows) >= 3
    /\ ~Blank(df.rows[2][1])
    /\ Raw(2)[1] # Raw(1)[1]
    /\ Raw(2)[3] # Raw(1)[3]
    /\ ~Blank(df.rows[1][2])

\* a decimal number once "," and "$" are taken out and the blanks around it
\* trimmed: an optional sign, digits, at most one ".", at least one digit
IsNumber(v) ==
    /\ v # NaN
    /\ LET t == strip(SelectSeq(v, LAMBDA c : c \notin {",", "$"}))
           u == IF t # <<>> /\ t[1] \in {"+", "-"} THEN Tail(t) ELSE t
       IN  /\ \A i \in 1..Len(u) : IsDigit(u[i]) \/ u[i] = "."
           /\ Cardinality({i \in 1..Len(u) : u[i] = "."}) <= 1
           /\ \E i \in 1..Len(u) : IsDigit(u[i])

\* below zero: a minus sign and a digit other than 0
IsNegative(v) ==
    /\ IsNumber(v)
    /\ \E i \in 1..Len(v) : v[i] = "-"
    /\ \E i \in 1..Len(v) : IsDigit(v[i]) /\ v[i] # "0"

\* an optional "-", digits, ".", two digits
IsTwoDecimal(s) ==
    LET b == IF s # <<>> /\ s[1] = "-" THEN Tail(s) ELSE s
    IN  /\ Len(b) >= 4
        /\ b[Len(b) - 2] = "."
        /\ AllDigits(SubSeq(b, 1, Len(b) - 3))
        /\ AllDigits(SubSeq(b, Len(b) - 1, Len(b)))

\* C4: the Document Balance is a two-decimal numeric literal, and "0.00"
\* for every cell that is not a number, a missing cell included.
C4_BalanceIsTwoDecimal ==
    cpc = "formatted" =>
      /\ IsTwoDecimal(balance)
      /\ ~IsNumber(val) => balance = <<"0", ".", "0", "0">>

\* C5: the Document Type is INV for a balance of zero or more, CRD for one
\* below zero, and INV for every cell that is not a number, a missing cell
\* included.
C5_TypeFollowsSign ==
    cpc \in {"typed", "formatted"} =>
      /\ doc_type \in {"INV", "CRD"}
      /\ ~IsNumber(val) => doc_type = "INV"
      /\ IsNumber(val) => (doc_type = "CRD" <=> IsNegative(val))

\* two digits, "/", two digits, "/", digits
IsDayMonthYear(s) ==
    /\ Len(s) >= 7
    /\ AllDigits(SubSeq(s, 1, 2))
    /\ s[3] = "/"
    /\ AllDigits(SubSeq(s, 4, 5))
    /\ s[6] = "/"
    /\ AllDigits(SubSeq(s, 7, Len(s)))

IsDDMMYYYY(s) == IsDayMonthYear(s) /\ Len(s) = 10

\* the date a day/month/year text names
DateOf(s) ==
    [d |-> DigitsToNat(SubSeq(s, 1, 2)),
     m |-> DigitsToNat(SubSeq(s, 4, 5)),
     y |-> DigitsToNat(SubSeq(s, 7, Len(s)))]

\* some format of the list reads the cell
SomeFormatReads(v) == \E i \in 1..Len(Formats) : strptime(str(v), Formats[i]) # NoDate

\* C6 as claimed: the Document Date is a DD/MM/YYYY string or the empty
\* string, the empty string for a cell nothing could parse.
C6_DateOrEmpty ==
    cpc = "dated" => date = <<>> \/ IsDDMMYYYY(date)

\* C6 as amended: a blank cell gives the empty string; a cell a format or
\* the permissive parser reads gives day/month/year of the date read, the
\* year in four digits from the year 1000 on; any other cell comes back as
\* the text it was.
C6_DateOrOriginal ==
    cpc = "dated" =>
      /\ Blank(val) => date = <<>>
      /\ ~Blank(val) /\ SomeFormatReads(val) =>
           /\ IsDayMonthYear(date)
           /\ \E i \in 1..Len(Formats) : DateOf(date) = strptime(str(val), Formats[i])
           /\ DateOf(date).y >= 1000 => IsDDMMYYYY(date)
      /\ ~Blank(val) /\ ~SomeFormatReads(val) /\ to_datetime.kind = "date" =>
           /\ IsDDMMYYYY(date)
           /\ DateOf(date) = [d |-> to_datetime.d, m |-> to_datetime.m, y |-> to_datetime.y]
      /\ ~Blank(val) /\ ~SomeFormatReads(val) /\ to_datetime.kind # "date" =>
           date = str(val)

\* a non-blank cell that no format reads and the permissive parser gave up
\* on, handed back as it was
C6_Witness ==
    /\ cpc = "dated"
    /\ ~Blank(val)
    /\ ~SomeFormatReads(val)
    /\ to_datetime = NaT
    /\ date = val
    /\ Len(date) = 10

\* the frame as it was parsed, once the name was accepted
Parsed == IF pc = "read" \/ error = "EmptyInput" THEN df ELSE original_df

Finished == pc = "done" /\ name \in SupportedNames

\* C7: a non-empty table of fewer than 14 columns ends in
\* InsufficientColumns with no table, however many rows it has.
C7_NarrowFails ==
    (/\ Finished
     /\ Len(Parsed.rows) >= 1
     /\ Parsed.ncols \in 1..(RequiredCols - 1))
    => error = "InsufficientColumns" /\ result = None

\* a table of 13 columns whose rows all fall to the row trim
C7_Witness ==
    /\ Finished
    /\ Parsed.ncols = RequiredCols - 1
    /\ Len(Parsed.rows) \in 1..HeaderRows
    /\ error = "InsufficientColumns"
    /\ result = None

\* C8: a table of zero rows ends in EmptyInput with no table, and never
\* reaches the row trim or the column check.
C8_EmptyFailsFirst ==
    (/\ name \in SupportedNames
     /\ pc # "start"
     /\ Len(Parsed.rows) = 0)
    => /\ pc \in {"read", "done"}
       /\ pc = "done" => error = "EmptyInput" /\ result = None

\* the empty sheet, refused
C8_Witness ==
    /\ Finished
    /\ Parsed = EmptySheet
    /\ error = "EmptyInput"
    /\ result = None

\* C9: a run ends with a table and no error, or with no table and one of
\* the three errors; a supported name with at least 1 row and 14 columns
\* always ends with a table, of zero records when it has 13 rows or fewer.
C9_SucceedsOrFailsByName ==
    pc = "done" =>
      /\ \/ result.kind = "table" /\ error = "none"
         \/ result = None /\ error \in {"UnsupportedFormat", "EmptyInput", "InsufficientColumns"}
      /\ (/\ name \in SupportedNames
          /\ Len(Parsed.rows) >= 1
          /\ Parsed.ncols >= RequiredCols)
         => /\ result.kind = "table"
            /\ error = "none"
            /\ Len(Parsed.rows) <= HeaderRows => result.rows = <<>>

\* exactly 13 rows of 14 columns, returned as a table without records
C9_Witness ==
    /\ Finished
    /\ Parsed.ncols = RequiredCols
    /\ Len(Parsed.rows) = HeaderRows
    /\ result = Frame(<<>>)
    /\ error = "none"

\* the column-A value of the nearest row of the frame as read, from the
\* first data row up to the row above R, where it is not blank
NearestAbove(R) ==
    LET J == {q \in (HeaderRows + 1)..(R - 1) : ~Blank(original_df.rows[q][1])}
    IN  IF J = {} THEN <<>> ELSE original_df.rows[Max(J)][1]

\* the rows of the frame as read that have a reference above them and a number
Emitted ==
    {R \in (HeaderRows + 1)..Len(original_df.rows) :
       ~Blank(NearestAbove(R)) /\ ~Blank(original_df.rows[R][3])}

\* C10: the first row after the header region is never emitted, so n >= 14
\* rows give at most n - 14 records, and each record carries the column-A
\* value of the nearest non-blank row above its own, from the first data
\* row on, never its own row's.
C10_ReferenceComesFromAbove ==
    Returned /\ Len(original_df.rows) > HeaderRows =>
      /\ Len(result.rows) <= Len(original_df.rows) - (HeaderRows + 1)
      /\ (HeaderRows + 1) \notin Emitted
      /\ Len(result.rows) = Cardinality(Emitted)
      /\ \A j \in 1..Len(result.rows) :
           result.rows[j].DebtorReference = NearestAbove(Nth(Emitted, j))

\* a record whose own row has another reference in column A than the one it
\* carries, in a frame whose first data row has a number
C10_Witness ==
    /\ Returned
    /\ Len(original_df.rows) = HeaderRows + MaxData
    /\ ~Blank(original_df.rows[HeaderRows + 1][3])
    /\ \E j \in 1..Len(result.rows) :
         LET R == Nth(Emitted, j)
         IN  /\ ~Blank(original_df.rows[R][1])
             /\ original_df.rows[R][1] # result.rows[j].DebtorReference

====
